---- MODULE Spec2Model ----
(***************************************************************************)
(* State-machine model of the Play Store lookup service (src/app.py,       *)
(* src/config.py): the /search handler, get_app_info and log_installs, the *)
(* scheduled job, the password gate and the log routes.                    *)
(*                                                                         *)
(* Text is modelled as a sequence of one-character strings, so that        *)
(* str.strip() and the comparison of titles are computed, not assumed.     *)
(* Two threads run lookups: "req" (the framework thread serving /search)   *)
(* and "job" (the scheduler's background thread).  Each step of            *)
(* log_installs that touches the file system is a step of its own, so the  *)
(* two threads and delete_logs interleave as they do in the process.       *)
(***************************************************************************)
EXTENDS Integers, Sequences, FiniteSets, TLC

\* ------------------------------------------------------------------ bounds
MaxLen == 1
MaxCands == 2
MaxRows == 4

\* ------------------------------------------------------------------- text
Chars == {" ", "d"}
Whitespace == {" "}

RawNames == UNION {[1..n -> Chars] : n \in 0..MaxLen}

RECURSIVE LStrip(_)
LStrip(s) ==
  IF s = <<>> THEN <<>>
  ELSE IF Head(s) \in Whitespace THEN LStrip(Tail(s)) ELSE s

RECURSIVE RStrip(_)
RStrip(s) ==
  IF s = <<>> THEN <<>>
  ELSE IF s[Len(s)] \in Whitespace THEN RStrip(SubSeq(s, 1, Len(s) - 1)) ELSE s

NoStrip(s) == s

\* str.strip(): leading and trailing whitespace removed
Strip(s) == RStrip(LStrip(s))

\* the fixed query of the scheduled job
Deerwalk == <<"D", "e", "e", "r", "w", "a", "l", "k">>

DeerwalkInc == Deerwalk \o <<" ", "I", "n", "c">>

\* config.PASSWORD and the passwords a login form may carry ("" is a form
\* without the field: request.form.get returns None, equal to no password)
PASSWORD == "dss"

Passwords == {"dss", "bad", ""}

\* app.debug under the default DevelopmentConfig
DEBUG == TRUE

\* ------------------------------------------------------- the request body
\* request.get_json(): None, or an object; the value under 'app_name' is a
\* string or not a string (null, a number)
NoBody == [isNone |-> TRUE, keys |-> {}, isStr |-> FALSE, s |-> <<>>]

EmptyObj == [isNone |-> FALSE, keys |-> {}, isStr |-> FALSE, s |-> <<>>]

OtherObj == [isNone |-> FALSE, keys |-> {"name"}, isStr |-> FALSE, s |-> <<>>]

NullName == [isNone |-> FALSE, keys |-> {"app_name"}, isStr |-> FALSE, s |-> <<>>]

NameObj(s) == [isNone |-> FALSE, keys |-> {"app_name"}, isStr |-> TRUE, s |-> s]

Bodies == {NoBody, EmptyObj, OtherObj, NullName} \cup {NameObj(s) : s \in RawNames}

\* ------------------------------------------------------ the Lookup Client
\* google_play_scraper is outside the repository: search returns any list of
\* store entries (or raises), app() returns a detail record for an
\* identifier (or nothing, or raises).
Apps == {"com.deerwalk.inc", "com.deerwalk", "com.untitled"}

Title(a) ==
  CASE a = "com.deerwalk.inc" -> DeerwalkInc
    [] a = "com.deerwalk" -> Deerwalk
    [] OTHER -> <<>>

Candidate(a) == [appId |-> a, title |-> Title(a)]

RECURSIVE CandLists(_)
CandLists(n) ==
  IF n = 0 THEN {<<>>}
  ELSE LET shorter == CandLists(n - 1)
       IN shorter \cup
          {Append(l, Candidate(a)) : l \in {x \in shorter : Len(x) = n - 1},
                                     a \in Apps}

NoRepeat(l) == \A i, j \in 1..Len(l) : i # j => l[i] # l[j]

SearchReturns == {l \in CandLists(MaxCands) : NoRepeat(l)}

\* the store's record of an application
FullDetails(a) ==
  [title |-> Title(a), installs |-> "1,000+", realInstalls |-> 1000,
   score |-> 4, ratings |-> 10]

NoDetails == [x \in {} |-> 0]

\* app(app_id): nothing (None, or an empty record), or the store's record
DetailReturns(a) == {NoDetails, FullDetails(a)}

\* dict.get(key, default)
Get(d, k, default) == IF k \in DOMAIN d THEN d[k] ELSE default

\* str() of the numbers the csv writer receives
Str(v) ==
  CASE v = 1000 -> "1000"
    [] v = 4 -> "4"
    [] v = 10 -> "10"
    [] OTHER -> "0"

\* -------------------------------------------------------------- the state
Procs == {"req", "job"}

Sessions == {"s1", "s2"}

VARIABLES
  file,           \* config.INSTALLS_LOG: whether it exists, and its rows
  pc,             \* where each thread stands
  app_name,       \* get_app_info's argument
  results,        \* what search returned
  app_id,         \* the identifier handed to the detail fetch
  app_details,    \* what the detail fetch returned
  file_exists,    \* log_installs' os.path.isfile answer
  handle,         \* log_installs' open file: "closed", "open", "unlinked"
  exc,            \* the exception get_app_info caught ("" for none)
  result,         \* get_app_info's return value
  calls,          \* calls made by the current handler run, per callee
  jobState,       \* Idle, Firing, Success, Failed
  authenticated,  \* session['authenticated'], per session
  resp            \* the answer to the /search request (status 0: none yet)

vars ==
  <<file, pc, app_name, results, app_id, app_details, file_exists, handle,
    exc, result, calls, jobState, authenticated, resp>>

locals == <<app_name, results, app_id, app_details, file_exists, exc, result>>

\* ------------------------------------------------------- the installs log
Header == [kind |-> "header"]

RowOfTitle(name, d) ==
  [kind |-> "data", timestamp |-> "iso", app_name |-> Get(d, "title", <<>>),
   installs |-> Get(d, "installs", "N/A"),
   real_installs |-> IF "realInstalls" \in DOMAIN d THEN Str(d.realInstalls) ELSE "N/A",
   score |-> IF "score" \in DOMAIN d THEN Str(d.score) ELSE "N/A",
   ratings |-> IF "ratings" \in DOMAIN d THEN Str(d.ratings) ELSE "N/A"]

\* log_installs' writer.writerow: the timestamp is datetime.now().isoformat()
\* ("iso": a text fromisoformat reads back), every value goes through str()
Row(name, d) ==
  [kind |-> "data",
   timestamp |-> "iso",
   app_name |-> name,
   installs |-> Get(d, "installs", "N/A"),
   real_installs |-> IF "realInstalls" \in DOMAIN d THEN Str(d.realInstalls) ELSE "N/A",
   score |-> IF "score" \in DOMAIN d THEN Str(d.score) ELSE "N/A",
   ratings |-> IF "ratings" \in DOMAIN d THEN Str(d.ratings) ELSE "N/A"]

NoFile == [exists |-> FALSE, rows |-> <<>>]

TruncateRows(old, new) == new

\* open(..., 'a'): what is written lands after what the file holds
AppendRows(old, new) == old \o new

\* log_installs writes the header when isfile() answered False
NeedsHeader(seen) == ~seen

\* what csv.DictReader yields for row i: the first row names the fields, so a
\* row is readable when the first row is the header and the row is a record
Readable(rows, i) == rows[1] = Header /\ rows[i].kind = "data"

\* ---------------------------------------------------- get_app_info's results
NoResult == [x \in {} |-> 0]

WrongNotFound == [success |-> FALSE, error |-> "Could not fetch app details"]

NotFoundResult == [success |-> FALSE, error |-> "App not found on Google Play Store"]

NoDetailsResult == [success |-> FALSE, error |-> "Could not fetch app details"]

Propagate(e) == [raised |-> e]

\* get_app_info's except Exception clause
GetAppInfoExcept(e) ==
  [success |-> FALSE, error |-> "Failed to fetch app data",
   details |-> IF DEBUG THEN e ELSE "None"]

\* the formatted response; the fields not listed here (url, icon, developer,
\* price, ...) are built the same way
SuccessResult(id, d) ==
  [success |-> TRUE,
   app |-> [title |-> Get(d, "title", <<>>),
            appId |-> id,
            score |-> Get(d, "score", 0),
            ratings |-> Get(d, "ratings", 0),
            installs |-> Get(d, "installs", ""),
            realInstalls |-> Get(d, "realInstalls", 0)]]

Raised(r) == "raised" \in DOMAIN r

NeverEmpty(r) == FALSE

\* `if not results`
NotResults(r) == r = <<>>

SelectLast(r) == r[Len(r)]

\* results[0]
SelectCandidate(r) == r[1]

NoResponse == [status |-> 0, location |-> "", error |-> ""]

NoCalls == [info |-> 0, search |-> 0, detail |-> 0, log |-> 0]

Called(p, what) == [calls EXCEPT ![p][what] = @ + 1]

RowsNow == IF file.exists THEN Len(file.rows) ELSE 0

Active == Cardinality({p \in Procs : pc[p] # "idle"})

\* a lookup writes at most a header and a record: lookups start only while
\* the log has room for those of every running lookup
CanStart == RowsNow + 2 * (Active + 1) <= MaxRows

Init ==
  /\ file = NoFile
  /\ pc = [p \in Procs |-> "idle"]
  /\ app_name = [p \in Procs |-> <<>>]
  /\ results = [p \in Procs |-> <<>>]
  /\ app_id = [p \in Procs |-> ""]
  /\ app_details = [p \in Procs |-> NoDetails]
  /\ file_exists = [p \in Procs |-> FALSE]
  /\ handle = [p \in Procs |-> "closed"]
  /\ exc = [p \in Procs |-> ""]
  /\ result = [p \in Procs |-> NoResult]
  /\ calls = [p \in Procs |-> NoCalls]
  /\ jobState = "Idle"
  /\ authenticated = [s \in Sessions |-> FALSE]
  /\ resp = NoResponse

\* the locals of a finished call are gone, and its calls are counted anew
Return(p) ==
  /\ app_name' = [app_name EXCEPT ![p] = <<>>]
  /\ results' = [results EXCEPT ![p] = <<>>]
  /\ app_id' = [app_id EXCEPT ![p] = ""]
  /\ app_details' = [app_details EXCEPT ![p] = NoDetails]
  /\ file_exists' = [file_exists EXCEPT ![p] = FALSE]
  /\ exc' = [exc EXCEPT ![p] = ""]
  /\ result' = [result EXCEPT ![p] = NoResult]
  /\ calls' = [calls EXCEPT ![p] = NoCalls]

\* ---------------------------------------------------------------- /search
\* a response: its status, the Location of a redirect, and the error message
\* of its body (the rest of the body is the handler's result or a page)
BadRequest(msg) == [status |-> 400, location |-> "", error |-> msg]

ServerError == [status |-> 500, location |-> "", error |-> "An unexpected error occurred"]

Json(r) == [status |-> 200, location |-> "", error |-> Get(r, "error", "")]

\* search_app up to its call of get_app_info
SearchApp(data) ==
  /\ pc["req"] = "idle"
  /\ IF data.isNone \/ data.keys = {} \/ "app_name" \notin data.keys
     THEN /\ resp' = BadRequest("App name is required")
          /\ calls' = [calls EXCEPT !["req"] = NoCalls]
          /\ UNCHANGED <<pc, app_name>>
     ELSE IF ~data.isStr
     THEN \* .strip() on a value that is no string: caught by except Exception
          /\ resp' = ServerError
          /\ calls' = [calls EXCEPT !["req"] = NoCalls]
          /\ UNCHANGED <<pc, app_name>>
     ELSE IF Strip(data.s) = <<>>
     THEN /\ resp' = BadRequest("App name cannot be empty")
          /\ calls' = [calls EXCEPT !["req"] = NoCalls]
          /\ UNCHANGED <<pc, app_name>>
     ELSE /\ CanStart
          /\ pc' = [pc EXCEPT !["req"] = "search"]
          /\ app_name' = [app_name EXCEPT !["req"] = Strip(data.s)]
          /\ calls' = [calls EXCEPT !["req"] = NoCalls]
          /\ resp' = NoResponse
  /\ UNCHANGED <<file, results, app_id, app_details, file_exists, handle, exc,
                 result, jobState, authenticated>>

\* search_app after get_app_info: jsonify(result), or the except clause
SearchAppReturn ==
  /\ pc["req"] = "ret"
  /\ resp' = IF Raised(result["req"]) THEN ServerError
             ELSE Json(result["req"])
  /\ pc' = [pc EXCEPT !["req"] = "idle"]
  /\ Return("req")
  /\ UNCHANGED <<file, handle, jobState, authenticated>>

\* ------------------------------------------------------------ get_app_info
\* search(app_name, n_hits=1, ...) and the choice of the application
GetAppInfoSearch(p) ==
  /\ pc[p] = "search"
  /\ calls' = [calls EXCEPT ![p].info = @ + 1, ![p].search = @ + 1]
  /\ \/ /\ exc' = [exc EXCEPT ![p] = "search failed"]
        /\ result' = [result EXCEPT ![p] = GetAppInfoExcept("search failed")]
        /\ pc' = [pc EXCEPT ![p] = "ret"]
        /\ UNCHANGED <<results, app_id>>
     \/ \E r \in SearchReturns :
          /\ results' = [results EXCEPT ![p] = r]
          /\ IF NotResults(r)
             THEN /\ result' = [result EXCEPT ![p] = NotFoundResult]
                  /\ pc' = [pc EXCEPT ![p] = "ret"]
                  /\ UNCHANGED <<app_id, exc>>
             ELSE IF r = <<>>
             THEN \* results[0] of an empty list: IndexError
                  /\ exc' = [exc EXCEPT ![p] = "list index out of range"]
                  /\ result' = [result EXCEPT ![p] = GetAppInfoExcept("list index out of range")]
                  /\ pc' = [pc EXCEPT ![p] = "ret"]
                  /\ UNCHANGED app_id
             ELSE /\ app_id' = [app_id EXCEPT ![p] = SelectCandidate(r).appId]
                  /\ pc' = [pc EXCEPT ![p] = "detail"]
                  /\ UNCHANGED <<result, exc>>
  /\ UNCHANGED <<file, app_name, app_details, file_exists, handle, jobState,
                 authenticated, resp>>

\* get_app_details(app_id, ...); results is not read again, and the model
\* forgets it here
GetAppInfoDetail(p) ==
  /\ pc[p] = "detail"
  /\ calls' = Called(p, "detail")
  /\ \/ /\ exc' = [exc EXCEPT ![p] = "detail failed"]
        /\ result' = [result EXCEPT ![p] = GetAppInfoExcept("detail failed")]
        /\ pc' = [pc EXCEPT ![p] = "ret"]
        /\ UNCHANGED app_details
     \/ \E d \in DetailReturns(app_id[p]) :
          /\ app_details' = [app_details EXCEPT ![p] = d]
          /\ IF d = NoDetails
             THEN /\ result' = [result EXCEPT ![p] = NoDetailsResult]
                  /\ pc' = [pc EXCEPT ![p] = "ret"]
             ELSE /\ pc' = [pc EXCEPT ![p] = "isfile"]
                  /\ UNCHANGED result
          /\ UNCHANGED exc
  /\ results' = [results EXCEPT ![p] = <<>>]
  /\ UNCHANGED <<file, app_name, app_id, file_exists, handle, jobState,
                 authenticated, resp>>

\* ------------------------------------------------------------ log_installs
\* file_exists = os.path.isfile(config.INSTALLS_LOG)
LogInstallsIsFile(p) ==
  /\ pc[p] = "isfile"
  /\ calls' = Called(p, "log")
  /\ file_exists' = [file_exists EXCEPT ![p] = file.exists]
  /\ pc' = [pc EXCEPT ![p] = "open"]
  /\ UNCHANGED <<file, app_name, results, app_id, app_details, handle, exc,
                 result, jobState, authenticated, resp>>

\* open(config.INSTALLS_LOG, 'a'): creates the file when there is none, or
\* raises (caught by log_installs, and get_app_info goes on to its return)
LogInstallsOpen(p) ==
  /\ pc[p] = "open"
  /\ \/ /\ pc' = [pc EXCEPT ![p] = "ret"]
        /\ result' = [result EXCEPT ![p] = SuccessResult(app_id[p], app_details[p])]
        /\ UNCHANGED <<file, handle>>
     \/ /\ file' = [exists |-> TRUE, rows |-> file.rows]
        /\ handle' = [handle EXCEPT ![p] = "open"]
        /\ pc' = [pc EXCEPT ![p] = "write"]
        /\ UNCHANGED result
  /\ UNCHANGED <<app_name, results, app_id, app_details, file_exists, exc,
                 calls, jobState, authenticated, resp>>

\* writeheader / writerow, flushed as one append when the with block closes
\* the file; a file unlinked meanwhile takes the rows with it
LogInstallsWrite(p) ==
  /\ pc[p] = "write"
  /\ LET new == (IF NeedsHeader(file_exists[p]) THEN <<Header>> ELSE <<>>)
                \o <<Row(app_name[p], app_details[p])>>
     IN file' = IF handle[p] = "open"
                THEN [file EXCEPT !.rows = AppendRows(@, new)]
                ELSE file
  /\ handle' = [handle EXCEPT ![p] = "closed"]
  /\ result' = [result EXCEPT ![p] = SuccessResult(app_id[p], app_details[p])]
  /\ pc' = [pc EXCEPT ![p] = "ret"]
  /\ UNCHANGED <<app_name, results, app_id, app_details, file_exists, exc,
                 calls, jobState, authenticated, resp>>

\* -------------------------------------------------------- scheduled_search
\* the interval trigger fires the job (one instance at a time)
Fire ==
  /\ pc["job"] = "idle"
  /\ CanStart
  /\ jobState' = "Firing"
  /\ pc' = [pc EXCEPT !["job"] = "search"]
  /\ app_name' = [app_name EXCEPT !["job"] = Deerwalk]
  /\ calls' = [calls EXCEPT !["job"] = NoCalls]
  /\ UNCHANGED <<file, results, app_id, app_details, file_exists, handle, exc,
                 result, authenticated, resp>>

RetryOnFailure(r) ==
  IF Raised(r) \/ ~r.success THEN "search" ELSE "finally"

\* where the job goes once get_app_info is back: every path of the try
\* block, the early return and the except clause included, enters finally
AfterLookup(r) == "finally"

ScheduledSearchAfter ==
  /\ pc["job"] = "ret"
  /\ jobState' = IF Raised(result["job"]) THEN "Failed"
                 ELSE IF ~Get(result["job"], "success", FALSE) THEN "Failed"
                 ELSE "Success"
  /\ pc' = [pc EXCEPT !["job"] = AfterLookup(result["job"])]
  /\ UNCHANGED <<file, locals, handle, calls, authenticated, resp>>

\* the finally block: the next run time is logged and the job is over
ScheduledSearchFinally ==
  /\ pc["job"] = "finally"
  /\ jobState' = "Idle"
  /\ pc' = [pc EXCEPT !["job"] = "idle"]
  /\ Return("job")
  /\ UNCHANGED <<file, handle, authenticated, resp>>

\* --------------------------------------------------- the password-gated routes
\* These handlers run in one step; what each answers is a function of the
\* state it runs in and of its request.
Redirect(to) == [status |-> 302, location |-> to, error |-> ""]

Page(code) == [status |-> code, location |-> "", error |-> ""]

\* password == config.PASSWORD
PasswordOk(pw) == pw = PASSWORD

LoginResponse(pw) == IF PasswordOk(pw) THEN Redirect("view_logs") ELSE Page(200)

\* POST /login
Login(s, pw) ==
  /\ authenticated' = IF PasswordOk(pw) THEN [authenticated EXCEPT ![s] = TRUE]
                      ELSE authenticated
  /\ UNCHANGED <<file, pc, locals, handle, calls, jobState, resp>>

Open(s) == TRUE

\* password_required: 'authenticated' in session and session['authenticated']
Allowed(s) == authenticated[s]

\* GET /logs: rows that fail to parse are skipped, the page is rendered
ViewLogsResponse(s) == IF ~Allowed(s) THEN Redirect("login") ELSE Page(200)

ViewLogs(s) == UNCHANGED vars

\* GET /logs/export: a row that fails to parse is an unhandled exception
ExportLogsResponse(s) ==
  IF ~Allowed(s) THEN Redirect("login")
  ELSE IF ~file.exists THEN Page(200)
  ELSE IF \E i \in 2..Len(file.rows) : ~Readable(file.rows, i) THEN Page(500)
  ELSE Page(200)

ExportLogs(s) == UNCHANGED vars

\* GET /logs/export/real_installs
ExportRealInstallsResponse(s) ==
  IF ~Allowed(s) THEN Redirect("login")
  ELSE IF ~file.exists \/ Len(file.rows) <= 1 THEN Page(404)
  ELSE Page(200)

ExportRealInstalls(s) == UNCHANGED vars

DeleteLogsResponse(s) == IF ~Allowed(s) THEN Redirect("login") ELSE Redirect("view_logs")

\* POST /logs/delete: os.remove unlinks the file; a writer that holds it
\* open keeps writing to the unlinked file
DeleteLogs(s) ==
  /\ IF ~Allowed(s)
     THEN UNCHANGED <<file, handle>>
     ELSE /\ file' = NoFile
          /\ handle' = [p \in Procs |->
                          IF file.exists /\ handle[p] = "open" THEN "unlinked"
                          ELSE handle[p]]
  /\ UNCHANGED <<pc, locals, calls, jobState, authenticated, resp>>

\* ------------------------------------------------------- the specification
Lookup(p) ==
  \/ GetAppInfoSearch(p)
  \/ GetAppInfoDetail(p)
  \/ LogInstallsIsFile(p)
  \/ LogInstallsOpen(p)
  \/ LogInstallsWrite(p)

JobStep ==
  \/ Lookup("job")
  \/ ScheduledSearchAfter
  \/ ScheduledSearchFinally

Next ==
  \/ \E data \in Bodies : SearchApp(data)
  \/ SearchAppReturn
  \/ Fire
  \/ \E p \in Procs : Lookup(p)
  \/ ScheduledSearchAfter
  \/ ScheduledSearchFinally
  \/ \E s \in Sessions, pw \in Passwords : Login(s, pw)
  \/ \E s \in Sessions : ViewLogs(s)
  \/ \E s \in Sessions : ExportLogs(s)
  \/ \E s \in Sessions : ExportRealInstalls(s)
  \/ \E s \in Sessions : DeleteLogs(s)

Spec == Init /\ [][Next]_vars

\* the scheduler's thread keeps running: a job that fired takes its steps
FairSpec == Spec /\ WF_vars(JobStep)

\* ------------------------------------------------- the Best-Match Selector
\* The scoring rule of the specification (section 4.1); get_app_info holds
\* no such rule.  A score is a fraction ScoreNum / ScoreDen.
Lower(c) ==
  CASE c = "D" -> "d"
    [] c = "I" -> "i"
    [] OTHER -> c

LowerStr(s) == [i \in 1..Len(s) |-> Lower(s[i])]

IsSubstring(q, t) ==
  \E k \in 0..(Len(t) - Len(q)) : SubSeq(LowerStr(t), k + 1, k + Len(q)) = LowerStr(q)

ScoreNum(q, t) ==
  IF t = <<>> THEN -1
  ELSE IF LowerStr(q) = LowerStr(t) THEN 100
  ELSE IF IsSubstring(q, t) THEN 80 * Len(t) + 10 * Len(q)
  ELSE 0

ScoreDen(q, t) ==
  IF t # <<>> /\ LowerStr(q) # LowerStr(t) /\ IsSubstring(q, t) THEN Len(t) ELSE 1

\* title a scores strictly higher than title b for query q
Higher(q, a, b) == ScoreNum(q, a) * ScoreDen(q, b) > ScoreNum(q, b) * ScoreDen(q, a)

\* ------------------------------------------------------------- the claims
Blank(s) == \A i \in 1..Len(s) : s[i] \in Whitespace

Rejected(data) ==
  data.isNone \/ "app_name" \notin data.keys \/ (data.isStr /\ Blank(data.s))

RejectedBodies == {data \in Bodies : Rejected(data)}

SearchEmpty(p) ==
  pc[p] = "ret" /\ calls[p].search = 1 /\ calls[p].detail = 0 /\ exc[p] # "search failed"

\* C2 as stated: when the search returns an empty list, get_app_info returns
\* the uniform payload with title = Query, installs = "N/A",
\* realInstalls = null, score = "N/A" and ratings = 0.
C2_Original ==
  \A p \in Procs :
    SearchEmpty(p) =>
      /\ {"title", "installs", "realInstalls", "score", "ratings"} \subseteq DOMAIN result[p]
      /\ result[p].title = app_name[p]
      /\ result[p].installs = "N/A"
      /\ result[p].realInstalls = "null"
      /\ result[p].score = "N/A"
      /\ result[p].ratings = 0

\* C2 as amended: when the search returns an empty list, get_app_info
\* returns {success: false, error: "App not found on Google Play Store"}
\* and nothing else: no title, installs, realInstalls, score or ratings
\* field; no detail fetch is made and log_installs is not called.
C2_NotFound ==
  \A p \in Procs :
    SearchEmpty(p) =>
      /\ DOMAIN result[p] = {"success", "error"}
      /\ result[p].success = FALSE
      /\ result[p].error = "App not found on Google Play Store"
      /\ calls[p].log = 0

C2_Witness ==
  \E p \in Procs :
    SearchEmpty(p) /\ app_name[p] = Deerwalk /\ result[p] = NotFoundResult

Failing(r) == ~Raised(r) /\ ~Get(r, "success", FALSE)

\* C3 as stated: whatever the outcomes of the search, the detail fetch and
\* the log write, get_app_info returns a value, raises nothing, and any two
\* failing results have the same shape (the same fields).
C3_Original ==
  \A p, q \in Procs :
    (pc[p] = "ret" /\ pc[q] = "ret") =>
      /\ ~Raised(result[p])
      /\ (Failing(result[p]) /\ Failing(result[q])) => DOMAIN result[p] = DOMAIN result[q]

\* C3 as amended: get_app_info returns a value and raises nothing; every
\* failing result has success = false and an error message, and the results
\* of a caught exception carry a 'details' field on top, which the not-found
\* and no-details results do not have.
C3_NoEscape ==
  \A p \in Procs :
    pc[p] = "ret" =>
      /\ ~Raised(result[p])
      /\ "success" \in DOMAIN result[p]
      /\ result[p].success \in BOOLEAN
      /\ result[p].success => (DOMAIN result[p] = {"success", "app"} /\ exc[p] = "")
      /\ ~result[p].success =>
           /\ {"success", "error"} \subseteq DOMAIN result[p]
           /\ DOMAIN result[p] \subseteq {"success", "error", "details"}
           /\ "details" \in DOMAIN result[p] <=> exc[p] # ""

C3_Witness ==
  \E p, q \in Procs :
    /\ pc[p] = "ret" /\ exc[p] = "detail failed" /\ result[p].success = FALSE
    /\ pc[q] = "ret" /\ exc[q] = "" /\ result[q].success = FALSE

\* C4 as stated: the candidate handed to the detail fetch is one no other
\* candidate outscores (exact match 100 > substring match > no match).
C4_Original ==
  \A p \in Procs :
    pc[p] = "detail" =>
      \E i \in 1..Len(results[p]) :
        /\ results[p][i].appId = app_id[p]
        /\ \A j \in 1..Len(results[p]) :
             ~Higher(app_name[p], results[p][j].title, results[p][i].title)

\* C4 as amended: the candidate handed to the detail fetch is the first of
\* the sequence the search returned, whatever the titles: for "Deerwalk" and
\* the candidates ["Deerwalk Inc", "Deerwalk"] it is "Deerwalk Inc".
C4_FirstCandidate ==
  \A p \in Procs :
    pc[p] = "detail" =>
      /\ results[p] # <<>>
      /\ app_id[p] = results[p][1].appId
      /\ (app_name[p] = Deerwalk /\ Len(results[p]) = 2
          /\ results[p][1].title = DeerwalkInc /\ results[p][2].title = Deerwalk)
         => Title(app_id[p]) = DeerwalkInc

C4_Witness ==
  \E p \in Procs :
    /\ pc[p] = "detail"
    /\ app_name[p] = Deerwalk
    /\ results[p] = <<Candidate("com.deerwalk.inc"), Candidate("com.deerwalk")>>
    /\ app_id[p] = "com.deerwalk.inc"

\* C5: the lookup ends "not found" exactly when the search returned an empty
\* list, and then without raising; a non-empty list has exactly one of its
\* candidates selected, the first one when no candidate outscores it, and
\* that candidate's identifier is what the detail fetch receives.
C5_NotFoundIffEmpty ==
  \A p \in Procs :
    /\ pc[p] = "ret" =>
         (Get(result[p], "error", "") = "App not found on Google Play Store"
            <=> SearchEmpty(p))
    /\ SearchEmpty(p) => exc[p] = ""
    /\ pc[p] = "detail" =>
         /\ Cardinality({i \in 1..Len(results[p]) : results[p][i].appId = app_id[p]}) = 1
         /\ (\A j \in 1..Len(results[p]) :
               ~Higher(app_name[p], results[p][j].title, results[p][1].title))
            => app_id[p] = results[p][1].appId
    /\ pc[p] \in {"isfile", "open", "write"} =>
         /\ calls[p].detail = 1
         /\ app_details[p] = FullDetails(app_id[p])

C5_Witness ==
  \E p \in Procs :
    /\ pc[p] = "isfile"
    /\ app_id[p] = "com.untitled"
    /\ app_details[p].title = <<>>

\* C6: a job that fired returns to Idle whatever the lookup's outcome; the
\* finally block is entered after exactly one call of get_app_info (no
\* retry), with the run marked Success or Failed, and nothing but the
\* finally block's completion follows it.
C6_JobCompletes ==
  /\ (jobState # "Idle") ~> (jobState = "Idle")
  /\ [](pc["job"] = "finally" =>
          /\ calls["job"].info = 1
          /\ jobState \in {"Success", "Failed"})
  /\ [](jobState = "Idle" <=> pc["job"] = "idle")

C6_Witness ==
  /\ pc["job"] = "finally"
  /\ jobState = "Failed"
  /\ calls["job"].search = 1

DataOf(rows) == SelectSeq(rows, LAMBDA r : r.kind = "data")

IsPrefix(a, b) == Len(a) <= Len(b) /\ SubSeq(b, 1, Len(a)) = a

\* C8: the installs log is append-only: every step either keeps the file and
\* all its rows, unchanged and in order, as the beginning of the new
\* content, or is a delete_logs of an authenticated session, which removes
\* the file; view_logs, export_logs, export_real_installs and login change
\* nothing of it.
C8_AppendOnly ==
  [][
      /\ \/ /\ file.exists => file'.exists
           /\ IsPrefix(file.rows, file'.rows)
        \/ \E s \in Sessions : authenticated[s] /\ DeleteLogs(s) /\ file' = NoFile
      /\ \/ file' = file
         \/ \A s \in Sessions :
              ~(ViewLogs(s) \/ ExportLogs(s) \/ ExportRealInstalls(s)
                  \/ \E pw \in Passwords : Login(s, pw))]_vars

C8_Witness ==
  /\ file.exists
  /\ Len(file.rows) = 3
  /\ file.rows[1] = Header
  /\ file.rows[2].kind = "data"
  /\ file.rows[3].kind = "data"
  /\ file.rows[2].app_name # file.rows[3].app_name

\* C9 as stated: the installs log, whenever it exists and is not empty, is
\* one header row followed by data records only.
C9_Original ==
  (file.exists /\ file.rows # <<>>) =>
    /\ file.rows[1] = Header
    /\ \A i \in 2..Len(file.rows) : file.rows[i].kind = "data"

\* C10: a session becomes authenticated only by a POST /login of that
\* session with the configured password, a login with any other password
\* changes no session, and an unauthenticated session is answered by every
\* protected route with a redirect to login; its delete_logs leaves the
\* installs log as it was.
C10_Gate ==
  /\ [](\A s \in Sessions :
          ~authenticated[s] =>
            /\ ViewLogsResponse(s) = Redirect("login")
            /\ ExportLogsResponse(s) = Redirect("login")
            /\ ExportRealInstallsResponse(s) = Redirect("login")
            /\ DeleteLogsResponse(s) = Redirect("login"))
  /\ [][
        /\ \A s \in Sessions :
             (authenticated'[s] /\ ~authenticated[s]) => Login(s, "dss")
        /\ \A s \in Sessions :
             authenticated[s] => authenticated'[s]
        /\ \/ authenticated' = authenticated
           \/ \A s \in Sessions, pw \in Passwords : ~(pw # "dss" /\ Login(s, pw))
        /\ \/ file' = file
           \/ \A s \in Sessions : ~(~authenticated[s] /\ DeleteLogs(s))]_vars

C10_Witness ==
  /\ authenticated["s1"]
  /\ ~authenticated["s2"]
  /\ file.exists
  /\ Len(file.rows) >= 2

====
